---------------------------- MODULE Spec2Model ----------------------------
(***************************************************************************)
(* A model of examples/netfilter/netfilter.c: the reject loop that answers *)
(* every diverted TCP packet with a TCP reset and every diverted UDP       *)
(* packet with an ICMP(v6) port-unreachable message.                       *)
(*                                                                         *)
(* Memory is modelled at byte level.  A buffer is a sequence of bytes; the  *)
(* byte at C offset i is element i + 1, and every operator below takes C   *)
(* offsets.  A UINT16 is a number; a UINT32 is a tuple of its four bytes,   *)
(* least significant first (the value of a 32-bit object as a              *)
(* little-endian host reads it), because 2^32 - 1 does not fit TLC's       *)
(* integers.  ntohs/htons/ntohl/htonl swap bytes.                          *)
(***************************************************************************)
EXTENDS Integers, Sequences, FiniteSets, TLC

VARIABLES
    pc,           \* "start" before DivertOpen, "loop" in while (TRUE), "exit"
    packet,       \* char packet[MAXBUF] (its first BufBytes bytes)
    packet_len,   \* UINT packet_len
    recv_addr,    \* DIVERT_ADDRESS recv_addr
    send_addr,    \* DIVERT_ADDRESS send_addr
    hdrs,         \* ip_header .. udp_header, payload_len (outputs of the parse)
    reset,        \* TCPPACKET reset0
    resetv6,      \* TCPV6PACKET resetv6_0
    dnr,          \* UINT8 dnr0[]
    dnrv6,        \* UINT8 dnrv6_0[]
    recv_ok,      \* what the latest DivertRecv returned
    sent,         \* the DivertSend calls of the latest loop iteration, in order
    prev_sent,    \* history: the DivertSend calls of the iteration before that
    nfail,        \* history: failed DivertRecv/DivertSend calls so far (saturating)
    iter          \* history: iterations of the loop so far

vars == << pc, packet, packet_len, recv_addr, send_addr, hdrs, reset, resetv6,
           dnr, dnrv6, recv_ok, sent, prev_sent, nfail, iter >>

-----------------------------------------------------------------------------
(* Bounds of the model. *)

\* Longest transport payload of a modelled packet.
MaxPayload == 12
\* The failure counter saturates here.
MaxFail == 2
\* Iterations of the main loop in one run.
MaxIter == 3

-----------------------------------------------------------------------------
(* Sizes and values of divert.h and of the socket headers. *)

SizeofIpHdr == 20        \* sizeof(DIVERT_IPHDR)
SizeofIpv6Hdr == 40      \* sizeof(DIVERT_IPV6HDR)
SizeofTcpHdr == 20       \* sizeof(DIVERT_TCPHDR)
SizeofUdpHdr == 8        \* sizeof(DIVERT_UDPHDR)
SizeofIcmpHdr == 8       \* sizeof(DIVERT_ICMPHDR)
SizeofIcmpv6Hdr == 8     \* sizeof(DIVERT_ICMPV6HDR)
IPPROTO_ICMP == 1
IPPROTO_TCP == 6
IPPROTO_UDP == 17
IPPROTO_ICMPV6 == 58
DIVERT_DIRECTION_OUTBOUND == 0
DIVERT_DIRECTION_INBOUND == 1

\* Bytes of packet[MAXBUF] that the model keeps: the longest modelled packet,
\* an IPv4 header of 15 words, a UDP header and MaxPayload bytes.
BufBytes == 15 * 4 + SizeofUdpHdr + MaxPayload

NULL == 0 - 1            \* a header pointer that is not set

\* sizeof of the pre-fabricated packets (flexible array members add nothing).
SizeofTCPPACKET == SizeofIpHdr + SizeofTcpHdr
SizeofTCPV6PACKET == SizeofIpv6Hdr + SizeofTcpHdr
SizeofICMPPACKET == SizeofIpHdr + SizeofIcmpHdr
SizeofICMPV6PACKET == SizeofIpv6Hdr + SizeofIcmpv6Hdr
\* sizeof(dnr0) and sizeof(dnrv6_0)
SizeofDnr0 == SizeofICMPPACKET + 15 * 4 + 8 + 1
SizeofDnrv6_0 == SizeofICMPV6PACKET + SizeofIpv6Hdr + SizeofTcpHdr

-----------------------------------------------------------------------------
(* Bytes, words and byte order. *)

\* The byte at C offset i.
At(b, i) == b[i + 1]

Put8(b, i, v) == [b EXCEPT ![i + 1] = v]

\* The UINT16 a little-endian host reads at offset off.
Get16(b, off) == At(b, off) + 256 * At(b, off + 1)

Put16(b, off, v) ==
    [b EXCEPT ![off + 1] = v % 256, ![off + 2] = (v \div 256) % 256]

\* The UINT32 at offset off, as its bytes, least significant first.
Get32(b, off) == SubSeq(b, off + 1, off + 4)

Put32(b, off, w) ==
    [b EXCEPT ![off + 1] = w[1], ![off + 2] = w[2], ![off + 3] = w[3], ![off + 4] = w[4]]

htons(v) == (v % 256) * 256 + ((v \div 256) % 256)

ntohs(v) == (v % 256) * 256 + ((v \div 256) % 256)

htonl(w) == << w[4], w[3], w[2], w[1] >>

ntohl(w) == << w[4], w[3], w[2], w[1] >>

Zero32 == << 0, 0, 0, 0 >>

\* w + n in UINT32 arithmetic (n a small natural): add with carry, drop the
\* carry out of the top byte.
Add32(w, n) ==
    LET s1 == w[1] + n
        s2 == w[2] + (s1 \div 256)
        s3 == w[3] + (s2 \div 256)
        s4 == w[4] + (s3 \div 256)
    IN  << s1 % 256, s2 % 256, s3 % 256, s4 % 256 >>

\* n bytes, each c.
Fill(c, n) == [i \in 1..n |-> c]

memcpy(dst, doff, src, soff, n) ==
    SubSeq(dst, 1, doff) \o SubSeq(src, soff + 1, soff + n)
        \o SubSeq(dst, doff + n + 1, Len(dst))

memset(dst, off, c, n) ==
    SubSeq(dst, 1, off) \o Fill(c, n) \o SubSeq(dst, off + n + 1, Len(dst))

\* The first n bytes of a buffer: what a call given (buffer, n) reads.
Prefix(b, n) == SubSeq(b, 1, n)

-----------------------------------------------------------------------------
(* Header fields.  h is the offset of the header in the buffer b; the field *)
(* offsets are those of the DIVERT_*HDR structures, which are the wire       *)
(* layouts.  Multi-byte fields are stored in network byte order.            *)

\* One-bit fields: mask is the bit's weight in its byte.
BitSet(v, mask) == (v \div mask) % 2 = 1

SetBit(v, mask) == IF BitSet(v, mask) THEN v ELSE v + mask

\* DIVERT_IPHDR: HdrLength:4, Version:4, TOS, Length, Id, FragOff0, TTL,
\* Protocol, Checksum, SrcAddr, DstAddr.
IpHdrLength(b, h) == At(b, h) % 16
IpVersion(b, h) == At(b, h) \div 16
IpProtocol(b, h) == At(b, h + 9)
IpSrcAddr(b, h) == Get32(b, h + 12)
IpDstAddr(b, h) == Get32(b, h + 16)

\* DIVERT_IPV6HDR: TrafficClass0:4, Version:4, FlowLabel0:4, TrafficClass1:4,
\* FlowLabel1, Length, NextHdr, HopLimit, SrcAddr[4], DstAddr[4].
Ipv6Version(b, h) == At(b, h) \div 16
Ipv6NextHdr(b, h) == At(b, h + 6)
Ipv6SrcAddrOff(h) == h + 8
Ipv6DstAddrOff(h) == h + 24

\* DIVERT_TCPHDR: SrcPort, DstPort, SeqNum, AckNum, Reserved1:4, HdrLength:4,
\* Fin:1, Syn:1, Rst:1, Psh:1, Ack:1, Urg:1, Reserved2:2, Window, Checksum,
\* UrgPtr.
TcpSrcPort(b, h) == Get16(b, h)
TcpDstPort(b, h) == Get16(b, h + 2)
TcpSeqNum(b, h) == Get32(b, h + 4)
TcpAckNum(b, h) == Get32(b, h + 8)
TcpHdrLength(b, h) == At(b, h + 12) \div 16
TcpSyn(b, h) == BitSet(At(b, h + 13), 2)
TcpAck(b, h) == BitSet(At(b, h + 13), 16)

-----------------------------------------------------------------------------
(* The pre-fabricated packets. *)

PacketIpInit(b, h) ==
    LET z == memset(b, h, 0, SizeofIpHdr)
        v == Put8(z, h, 4 * 16 + (SizeofIpHdr \div 4))          \* Version, HdrLength
        i == Put16(v, h + 4, ntohs(57005))                      \* Id = ntohs(0xDEAD)
    IN  Put8(i, h + 8, 64)                                      \* TTL

PacketIpTcpInit(b) ==
    LET z == memset(b, 0, 0, SizeofTCPPACKET)
        i == PacketIpInit(z, 0)
        l == Put16(i, 2, htons(SizeofTCPPACKET))
        p == Put8(l, 9, IPPROTO_TCP)
    IN  Put8(p, SizeofIpHdr + 12,
             (At(p, SizeofIpHdr + 12) % 16) + 16 * (SizeofTcpHdr \div 4))

PacketIpIcmpInit(b) ==
    LET z == memset(b, 0, 0, SizeofICMPPACKET)
        i == PacketIpInit(z, 0)
    IN  Put8(i, 9, IPPROTO_ICMP)

PacketIpv6Init(b, h) ==
    LET z == memset(b, h, 0, SizeofIpv6Hdr)
        v == Put8(z, h, (At(z, h) % 16) + 16 * 6)               \* Version
    IN  Put8(v, h + 7, 64)                                      \* HopLimit

PacketIpv6TcpInit(b) ==
    LET z == memset(b, 0, 0, SizeofTCPV6PACKET)
        i == PacketIpv6Init(z, 0)
        l == Put16(i, 4, htons(SizeofTcpHdr))
        p == Put8(l, 6, IPPROTO_TCP)
    IN  Put8(p, SizeofIpv6Hdr + 12,
             (At(p, SizeofIpv6Hdr + 12) % 16) + 16 * (SizeofTcpHdr \div 4))

PacketIpv6Icmpv6Init(b) ==
    LET z == memset(b, 0, 0, SizeofICMPV6PACKET)
        i == PacketIpv6Init(z, 0)
    IN  Put8(i, 6, IPPROTO_ICMPV6)

\* reset->tcp.Rst = 1; reset->tcp.Ack = 1; (t is the offset of the TCP header)
SetRstAck(b, t) == Put8(b, t + 13, SetBit(SetBit(At(b, t + 13), 4), 16))

\* main, "Initialize all packets", each template given as main's frame held it.
InitReset(b) == SetRstAck(PacketIpTcpInit(b), SizeofIpHdr)

InitDnr(b) ==
    LET p == PacketIpIcmpInit(b)
        t == Put8(p, SizeofIpHdr, 3)                            \* icmp.Type
    IN  Put8(t, SizeofIpHdr + 1, 3)                             \* icmp.Code

InitResetv6(b) == SetRstAck(PacketIpv6TcpInit(b), SizeofIpv6Hdr)

InitDnrv6(b) ==
    LET p == PacketIpv6Icmpv6Init(b)
        l == Put16(p, 4, htons(SizeofIcmpv6Hdr + 4 + SizeofIpv6Hdr + SizeofTcpHdr))
        t == Put8(l, SizeofIpv6Hdr, 1)                          \* icmpv6.Type
    IN  Put8(t, SizeofIpv6Hdr + 1, 4)                           \* icmpv6.Code

-----------------------------------------------------------------------------
(* DivertHelperParse (divert.dll).  Every header is looked for inside the   *)
(* first len bytes only; a header that does not fit is not reported.  The   *)
(* pointers are offsets into the buffer, NULL when not set.                 *)

DivertHelperParse(b, len) ==
    LET isV4 == /\ len >= SizeofIpHdr
                /\ IpVersion(b, 0) = 4
                /\ IpHdrLength(b, 0) >= 5
                /\ len >= IpHdrLength(b, 0) * 4
        isV6 == /\ ~isV4
                /\ len >= SizeofIpv6Hdr
                /\ Ipv6Version(b, 0) = 6
        net == isV4 \/ isV6
        t == IF isV4 THEN IpHdrLength(b, 0) * 4 ELSE SizeofIpv6Hdr
        proto == IF isV4 THEN IpProtocol(b, 0) ELSE Ipv6NextHdr(b, 0)
        isTcp == /\ net
                 /\ proto = IPPROTO_TCP
                 /\ len >= t + SizeofTcpHdr
                 /\ TcpHdrLength(b, t) >= 5
                 /\ len >= t + TcpHdrLength(b, t) * 4
        isUdp == net /\ proto = IPPROTO_UDP /\ len >= t + SizeofUdpHdr
        isIcmp == isV4 /\ proto = IPPROTO_ICMP /\ len >= t + SizeofIcmpHdr
        isIcmpv6 == isV6 /\ proto = IPPROTO_ICMPV6 /\ len >= t + SizeofIcmpv6Hdr
    IN  [ ip_header     |-> IF isV4 THEN 0 ELSE NULL,
          ipv6_header   |-> IF isV6 THEN 0 ELSE NULL,
          icmp_header   |-> IF isIcmp THEN t ELSE NULL,
          icmpv6_header |-> IF isIcmpv6 THEN t ELSE NULL,
          tcp_header    |-> IF isTcp THEN t ELSE NULL,
          udp_header    |-> IF isUdp THEN t ELSE NULL,
          payload_len   |-> IF isTcp THEN len - t - TcpHdrLength(b, t) * 4
                            ELSE IF isUdp THEN len - t - SizeofUdpHdr
                            ELSE IF isIcmp THEN len - t - SizeofIcmpHdr
                            ELSE IF isIcmpv6 THEN len - t - SizeofIcmpv6Hdr
                            ELSE IF net THEN len - t
                            ELSE 0 ]

-----------------------------------------------------------------------------
(* DivertHelperCalcChecksums (divert.dll): the Internet checksum, written   *)
(* in network byte order, over the len bytes of the packet in b: the IPv4   *)
(* header checksum, and the TCP, ICMP or ICMPv6 checksum (TCP and ICMPv6    *)
(* with the pseudo-header).  A checksum field counts as zero in its own     *)
(* sum, so its old value is taken out of the sum of the bytes as they are.  *)

\* The 16-bit big-endian word at offset off.
Word(b, off) == At(b, off) * 256 + At(b, off + 1)

RECURSIVE SumBytes(_, _, _)
\* The sum of the 16-bit big-endian words of the n bytes at offset off (an odd
\* last byte is padded with a zero byte).
SumBytes(b, off, n) ==
    IF n <= 0 THEN 0
    ELSE IF n = 1 THEN At(b, off) * 256
    ELSE Word(b, off) + SumBytes(b, off + 2, n - 2)

Fold16(s) ==
    LET f == (s % 65536) + (s \div 65536)
    IN  (f % 65536) + (f \div 65536)

Cksum(s) == 65535 - Fold16(s)

PutCksum(b, off, c) == [b EXCEPT ![off + 1] = c \div 256, ![off + 2] = c % 256]

\* The checksum of the n bytes at offset t, whose checksum field is at
\* offset t + field, with pseudo added to the sum.
SegmentCksum(b, t, n, field, pseudo) ==
    Cksum(pseudo + SumBytes(b, t, n) - Word(b, t + field))

DivertHelperCalcChecksums(b, len) ==
    IF IpVersion(b, 0) = 4 THEN
        LET t == IpHdrLength(b, 0) * 4
            ipsum == SegmentCksum(b, 0, t, 10, 0)
            pseudo == SumBytes(b, 12, 8) + IpProtocol(b, 0) + (len - t)
        IN  IF IpProtocol(b, 0) = IPPROTO_TCP THEN
                PutCksum(PutCksum(b, 10, ipsum), t + 16,
                         SegmentCksum(b, t, len - t, 16, pseudo))
            ELSE IF IpProtocol(b, 0) = IPPROTO_ICMP THEN
                PutCksum(PutCksum(b, 10, ipsum), t + 2,
                         SegmentCksum(b, t, len - t, 2, 0))
            ELSE PutCksum(b, 10, ipsum)
    ELSE
        LET t == SizeofIpv6Hdr
            pseudo == SumBytes(b, 8, 32) + (len - t) + Ipv6NextHdr(b, 0)
        IN  IF Ipv6NextHdr(b, 0) = IPPROTO_TCP THEN
                PutCksum(b, t + 16, SegmentCksum(b, t, len - t, 16, pseudo))
            ELSE IF Ipv6NextHdr(b, 0) = IPPROTO_ICMPV6 THEN
                PutCksum(b, t + 2, SegmentCksum(b, t, len - t, 2, pseudo))
            ELSE b

-----------------------------------------------------------------------------
(* The body of the main loop.  m holds what one iteration may change: the   *)
(* four templates, send_addr and the DivertSend calls made so far.  pkt is  *)
(* packet[], h the parse's outputs, ra recv_addr, ok what DivertSend        *)
(* returns in this iteration.                                               *)

\* C's !x
LogicalNot(x) == IF x = 0 THEN 1 ELSE 0

\* A variant that calls DivertSend again when it fails.
SendReply_Retry(calls, b, len, addr, ok) ==
    LET call == [buf |-> Prefix(b, len), len |-> len, addr |-> addr, ok |-> ok]
    IN  IF ok THEN Append(calls, call) ELSE Append(Append(calls, call), call)

\* if (!DivertSend(handle, buf, len, &addr, NULL)) { fprintf(stderr, ...); }
\* One call; a failure is reported and nothing else is done.
SendReply(calls, b, len, addr, ok) ==
    Append(calls, [buf |-> Prefix(b, len), len |-> len, addr |-> addr, ok |-> ok])

\* memcpy(&send_addr, &recv_addr, sizeof(send_addr));
\* send_addr.Direction = !recv_addr.Direction;
ResetSendAddr(ra) == [ra EXCEPT !.Direction = LogicalNot(ra.Direction)]

\* A variant that turns the direction round, as for a reset.
DnrSendAddr_Inverted(ra) == [ra EXCEPT !.Direction = LogicalNot(ra.Direction)]

\* memcpy(&send_addr, &recv_addr, sizeof(send_addr));
\* send_addr.Direction = DIVERT_DIRECTION_OUTBOUND;
DnrSendAddr(ra) == [ra EXCEPT !.Direction = DIVERT_DIRECTION_OUTBOUND]

\* reset->tcp.SrcPort = tcp_header->DstPort;
\* reset->tcp.DstPort = tcp_header->SrcPort;   (rt: the template's TCP header)
ResetPorts_NotSwapped(r, rt, pkt, t) ==
    Put16(Put16(r, rt, TcpSrcPort(pkt, t)), rt + 2, TcpDstPort(pkt, t))

ResetPorts(r, rt, pkt, t) ==
    Put16(Put16(r, rt, TcpDstPort(pkt, t)), rt + 2, TcpSrcPort(pkt, t))

\* A variant that copies AckNum whatever the ACK flag says.
ResetSeqNum_Echo(pkt, t) == TcpAckNum(pkt, t)

\* (tcp_header->Ack? tcp_header->AckNum: 0)
ResetSeqNum(pkt, t) == IF TcpAck(pkt, t) THEN TcpAckNum(pkt, t) ELSE Zero32

\* A variant that adds without converting to host order and back.
ResetAckNum_NoByteSwap(pkt, t, payload_len) ==
    IF TcpSyn(pkt, t)
    THEN Add32(TcpSeqNum(pkt, t), 1)
    ELSE Add32(TcpSeqNum(pkt, t), payload_len)

\* (tcp_header->Syn? htonl(ntohl(tcp_header->SeqNum) + 1):
\*                   htonl(ntohl(tcp_header->SeqNum) + payload_len))
ResetAckNum(pkt, t, payload_len) ==
    IF TcpSyn(pkt, t)
    THEN htonl(Add32(ntohl(TcpSeqNum(pkt, t)), 1))
    ELSE htonl(Add32(ntohl(TcpSeqNum(pkt, t)), payload_len))

\* if (tcp_header != NULL) { if (ip_header != NULL) { ... } }
TcpIp(m, pkt, h, ra, ok) ==
    LET ip == h.ip_header
        t == h.tcp_header
        r1 == Put32(m.reset, 12, IpDstAddr(pkt, ip))
        r2 == Put32(r1, 16, IpSrcAddr(pkt, ip))
        r4 == ResetPorts(r2, SizeofIpHdr, pkt, t)
        r5 == Put32(r4, SizeofIpHdr + 4, ResetSeqNum(pkt, t))
        r6 == Put32(r5, SizeofIpHdr + 8, ResetAckNum(pkt, t, h.payload_len))
        r7 == DivertHelperCalcChecksums(r6, SizeofTCPPACKET)
        sa == ResetSendAddr(ra)
    IN  [m EXCEPT !.reset = r7,
                  !.send_addr = sa,
                  !.sent = SendReply(m.sent, r7, SizeofTCPPACKET, sa, ok)]

\* if (tcp_header != NULL) { if (ipv6_header != NULL) { ... } }
TcpIpv6(m, pkt, h, ra, ok) ==
    LET ip6 == h.ipv6_header
        t == h.tcp_header
        r1 == memcpy(m.resetv6, 8, pkt, Ipv6DstAddrOff(ip6), 16)
        r2 == memcpy(r1, 24, pkt, Ipv6SrcAddrOff(ip6), 16)
        r4 == ResetPorts(r2, SizeofIpv6Hdr, pkt, t)
        r5 == Put32(r4, SizeofIpv6Hdr + 4, ResetSeqNum(pkt, t))
        r6 == Put32(r5, SizeofIpv6Hdr + 8, ResetAckNum(pkt, t, h.payload_len))
        r7 == DivertHelperCalcChecksums(r6, SizeofTCPV6PACKET)
        sa == ResetSendAddr(ra)
    IN  [m EXCEPT !.resetv6 = r7,
                  !.send_addr = sa,
                  !.sent = SendReply(m.sent, r7, SizeofTCPV6PACKET, sa, ok)]

\* A variant that copies the IPv4 header only.
IcmpDataLength_HeaderOnly(pkt, ip) == IpHdrLength(pkt, ip) * 4

\* UINT icmp_length = ip_header->HdrLength*sizeof(UINT32) + 8;
IcmpDataLength(pkt, ip) == IpHdrLength(pkt, ip) * 4 + 8

\* A variant that adds the size of the ICMP header alone.
IcmpLength_IcmpHdrOnly(n) == n + SizeofIcmpHdr

\* icmp_length += sizeof(ICMPPACKET);
IcmpLength(n) == n + SizeofICMPPACKET

\* if (udp_header != NULL) { if (ip_header != NULL) { ... } }
UdpIp(m, pkt, h, ra, ok) ==
    LET ip == h.ip_header
        n == IcmpDataLength(pkt, ip)
        d1 == memcpy(m.dnr, SizeofICMPPACKET, pkt, ip, n)
        icmp_length == IcmpLength(n)
        d2 == Put16(d1, 2, htons(icmp_length % 65536))
        d3 == Put32(d2, 12, IpDstAddr(pkt, ip))
        d4 == Put32(d3, 16, IpSrcAddr(pkt, ip))
        d5 == DivertHelperCalcChecksums(d4, icmp_length)
        sa == DnrSendAddr(ra)
    IN  [m EXCEPT !.dnr = d5,
                  !.send_addr = sa,
                  !.sent = SendReply(m.sent, d5, icmp_length, sa, ok)]

\* UINT icmpv6_length = sizeof(DIVERT_IPV6HDR) + sizeof(DIVERT_TCPHDR);
Icmpv6DataLength == SizeofIpv6Hdr + SizeofTcpHdr

\* icmpv6_length += sizeof(ICMPV6PACKET);
Icmpv6Length(n) == n + SizeofICMPV6PACKET

\* if (udp_header != NULL) { if (ipv6_header != NULL) { ... } }
UdpIpv6(m, pkt, h, ra, ok) ==
    LET ip6 == h.ipv6_header
        n == Icmpv6DataLength
        d1 == memcpy(m.dnrv6, SizeofICMPV6PACKET, pkt, ip6, n)
        icmpv6_length == Icmpv6Length(n)
        d2 == memcpy(d1, 8, pkt, Ipv6DstAddrOff(ip6), 16)
        d3 == memcpy(d2, 24, pkt, Ipv6SrcAddrOff(ip6), 16)
        d4 == DivertHelperCalcChecksums(d3, icmpv6_length)
        sa == DnrSendAddr(ra)
    IN  [m EXCEPT !.dnrv6 = d4,
                  !.send_addr = sa,
                  !.sent = SendReply(m.sent, d4, icmpv6_length, sa, ok)]

\* A variant whose ICMP block is not inside if (udp_header != NULL).
Dispatch_BraceSlip(m, pkt, h, ra, ok) ==
    IF h.ip_header = NULL /\ h.ipv6_header = NULL THEN m
    ELSE
        LET a == IF h.tcp_header # NULL /\ h.ip_header # NULL
                 THEN TcpIp(m, pkt, h, ra, ok) ELSE m
            b == IF h.tcp_header # NULL /\ h.ipv6_header # NULL
                 THEN TcpIpv6(a, pkt, h, ra, ok) ELSE a
            c == IF h.ip_header # NULL
                 THEN UdpIp(b, pkt, h, ra, ok) ELSE b
            d == IF h.udp_header # NULL /\ h.ipv6_header # NULL
                 THEN UdpIpv6(c, pkt, h, ra, ok) ELSE c
        IN  d

\* The loop body from the parse's outputs on; the blocks run in source order.
Dispatch(m, pkt, h, ra, ok) ==
    IF h.ip_header = NULL /\ h.ipv6_header = NULL THEN m        \* continue;
    ELSE
        LET a == IF h.tcp_header # NULL /\ h.ip_header # NULL
                 THEN TcpIp(m, pkt, h, ra, ok) ELSE m
            b == IF h.tcp_header # NULL /\ h.ipv6_header # NULL
                 THEN TcpIpv6(a, pkt, h, ra, ok) ELSE a
            c == IF h.udp_header # NULL /\ h.ip_header # NULL
                 THEN UdpIp(b, pkt, h, ra, ok) ELSE b
            d == IF h.udp_header # NULL /\ h.ipv6_header # NULL
                 THEN UdpIpv6(c, pkt, h, ra, ok) ELSE c
        IN  d

-----------------------------------------------------------------------------
(* The packets DivertRecv delivers, as sequences of bytes on the wire. *)

\* n bytes that differ from place to place and from tag to tag.
Pattern(tag, n) == [i \in 1..n |-> (tag + 7 * i) % 256]

Ip4Addr(a) == << 192, 168, a, 10 + a >>

Ip6Addr(a) == [k \in 1..16 |-> (32 * a + k) % 256]

Be16(v) == << v \div 256, v % 256 >>

Ip4Hdr(ihl, proto, src, dst, total) ==
    << 64 + ihl, 0 >> \o Be16(total) \o << 18, 52, 0, 0, 57, proto, 0, 0 >>
        \o Ip4Addr(src) \o Ip4Addr(dst) \o Pattern(128 + src, (ihl - 5) * 4)

Ip6Hdr(next, src, dst, plen) ==
    << 96, 0, 0, 0 >> \o Be16(plen) \o << next, 61 >> \o Ip6Addr(src) \o Ip6Addr(dst)

\* seq and ack are the four bytes on the wire (most significant first).
TcpHdr(c) ==
    Be16(c.sport) \o Be16(c.dport) \o c.seq \o c.ack
        \o << 16 * c.doff, c.flags, 32, 0, 0, 0, 0, 0 >>
        \o Pattern(160, (c.doff - 5) * 4)

UdpHdr(sport, dport, n) == Be16(sport) \o Be16(dport) \o Be16(8 + n) \o << 0, 0 >>

TcpCase(flags, seq, ack, plen, doff, src, dst, sport, dport) ==
    [ flags |-> flags, seq |-> seq, ack |-> ack, plen |-> plen, doff |-> doff,
      src |-> src, dst |-> dst, sport |-> sport, dport |-> dport ]

\* Flag bytes: FIN 1, SYN 2, RST 4, PSH 8, ACK 16, URG 32.
TcpCases ==
    { TcpCase(2, << 0, 0, 0, 100 >>, << 0, 0, 0, 0 >>, 0, 5, 1, 2, 40000, 80),
      TcpCase(2, << 255, 255, 255, 255 >>, << 0, 0, 0, 0 >>, 0, 6, 2, 1, 1025, 443),
      TcpCase(16, << 255, 255, 255, 254 >>, << 1, 2, 3, 4 >>, 2, 5, 1, 3, 80, 40000),
      TcpCase(57, << 0, 0, 255, 255 >>, << 9, 8, 7, 6 >>, 1, 5, 3, 1, 22, 50123),
      TcpCase(18, << 0, 1, 255, 255 >>, << 0, 0, 1, 0 >>, MaxPayload, 5, 2, 3, 443, 1025),
      TcpCase(4, << 7, 0, 0, 0 >>, << 5, 5, 5, 5 >>, 0, 5, 3, 2, 8080, 9 ) }

Tcp4Packet(c) ==
    Ip4Hdr(5, IPPROTO_TCP, c.src, c.dst, SizeofIpHdr + c.doff * 4 + c.plen)
        \o TcpHdr(c) \o Pattern(64 + c.src, c.plen)

Tcp6Packet(c) ==
    Ip6Hdr(IPPROTO_TCP, c.src, c.dst, c.doff * 4 + c.plen)
        \o TcpHdr(c) \o Pattern(64 + c.src, c.plen)

Udp4Packet(ihl, plen, src, dst) ==
    Ip4Hdr(ihl, IPPROTO_UDP, src, dst, ihl * 4 + SizeofUdpHdr + plen)
        \o UdpHdr(5000 + src, 53, plen) \o Pattern(32 + src, plen)

Udp6Packet(plen, src, dst) ==
    Ip6Hdr(IPPROTO_UDP, src, dst, SizeofUdpHdr + plen)
        \o UdpHdr(5000 + src, 53, plen) \o Pattern(32 + src, plen)

\* Packets that get no reply: ICMP, ICMPv6, a protocol the parse does not
\* know, transport headers cut short, and packets that are not IP at all.
Icmp4Packet == Ip4Hdr(5, IPPROTO_ICMP, 1, 2, 28) \o << 8, 0, 0, 0, 0, 1, 0, 1 >>

Icmp6Packet == Ip6Hdr(IPPROTO_ICMPV6, 2, 1, 8) \o << 128, 0, 0, 0, 0, 1, 0, 1 >>

Gre4Packet == Ip4Hdr(5, 47, 1, 2, 24) \o << 0, 0, 8, 0 >>

CutUdp4Packet == Ip4Hdr(6, IPPROTO_UDP, 2, 3, 28) \o << 19, 136, 0, 53 >>

CutTcp6Packet == Ip6Hdr(IPPROTO_TCP, 3, 1, 20) \o << 0, 80, 156, 64, 0, 0, 0, 1 >>

NotIpPacket == << 0, 1, 8, 0, 6, 4, 0, 1 >> \o Pattern(3, 20)

ShortIp4Packet == << 69, 0, 0, 40, 18, 52, 0, 0, 57, 6 >>

Tcp4Packets == { Tcp4Packet(c) : c \in TcpCases }

Tcp6Packets == { Tcp6Packet(c) : c \in TcpCases }

\* Every IPv4 header length; the odd ones carry a payload.
Udp4Packets ==
    { Udp4Packet(ihl, (ihl % 2) * MaxPayload, 1 + (ihl % 3), 1 + ((ihl + 1) % 3)) :
        ihl \in 5..15 }

NoReplyPackets ==
    { Icmp4Packet, Icmp6Packet, Gre4Packet, CutUdp4Packet, CutTcp6Packet,
      NotIpPacket, ShortIp4Packet }

\* A sample of every kind, for the runs that mix them.
MixedPackets ==
    { Tcp4Packet(c) : c \in { d \in TcpCases : d.flags = 57 } }
    \cup { Tcp6Packet(c) : c \in { d \in TcpCases : d.flags = 18 } }
    \cup { Udp4Packet(6, 1, 2, 1) }
    \cup { Udp6Packet(0, 1, 2), Udp6Packet(MaxPayload, 2, 1) }
    \cup { Icmp4Packet, Icmp6Packet, Gre4Packet, NotIpPacket }

\* DIVERT_ADDRESS values DivertRecv reports.
OutboundAddr == [IfIdx |-> 1, SubIfIdx |-> 0, Direction |-> DIVERT_DIRECTION_OUTBOUND]

InboundAddr == [IfIdx |-> 4, SubIfIdx |-> 2, Direction |-> DIVERT_DIRECTION_INBOUND]

RecvAddrs == { OutboundAddr, InboundAddr }

\* What an indeterminate byte of the stack may hold.
Indeterminate == {0, 204}

-----------------------------------------------------------------------------
(* The program. *)

Min(a, b) == IF a < b THEN a ELSE b

\* main's locals on entry: the arrays hold indeterminate bytes; the scalars are
\* written before they are read, and start at a fixed placeholder.
Init ==
    \E g \in Indeterminate :
        /\ pc = "start"
        /\ packet = Fill(g, BufBytes)
        /\ packet_len = 0
        /\ recv_addr = [IfIdx |-> 0, SubIfIdx |-> 0, Direction |-> 0]
        /\ send_addr = [IfIdx |-> 0, SubIfIdx |-> 0, Direction |-> 0]
        /\ hdrs = DivertHelperParse(packet, 0)
        /\ reset = Fill(g, SizeofTCPPACKET)
        /\ resetv6 = Fill(g, SizeofTCPV6PACKET)
        /\ dnr = Fill(g, SizeofDnr0)
        /\ dnrv6 = Fill(g, SizeofDnrv6_0)
        /\ recv_ok = FALSE
        /\ sent = << >>
        /\ prev_sent = << >>
        /\ nfail = 0
        /\ iter = 0

\* switch (argc) ... default: usage, exit(EXIT_FAILURE)
UsageExit ==
    /\ pc = "start"
    /\ pc' = "exit"
    /\ UNCHANGED << packet, packet_len, recv_addr, send_addr, hdrs, reset,
                    resetv6, dnr, dnrv6, recv_ok, sent, prev_sent, nfail, iter >>

\* "Initialize all packets"
InitAllPackets ==
    /\ reset' = InitReset(reset)
    /\ dnr' = InitDnr(dnr)
    /\ resetv6' = InitResetv6(resetv6)
    /\ dnrv6' = InitDnrv6(dnrv6)

\* DivertOpen returns INVALID_HANDLE_VALUE: exit(EXIT_FAILURE)
DivertOpenFails ==
    /\ pc = "start"
    /\ InitAllPackets
    /\ pc' = "exit"
    /\ UNCHANGED << packet, packet_len, recv_addr, send_addr, hdrs, recv_ok,
                    sent, prev_sent, nfail, iter >>

\* DivertOpen returns a handle: enter while (TRUE)
DivertOpenOk ==
    /\ pc = "start"
    /\ InitAllPackets
    /\ pc' = "loop"
    /\ UNCHANGED << packet, packet_len, recv_addr, send_addr, hdrs, recv_ok,
                    sent, prev_sent, nfail, iter >>

\* if (!DivertRecv(...)) { fprintf(stderr, ...); continue; }
DivertRecvFails ==
    /\ pc = "loop"
    /\ iter < MaxIter
    /\ iter' = iter + 1
    /\ pc' = "loop"
    /\ recv_ok' = FALSE
    /\ sent' = << >>
    /\ prev_sent' = sent
    /\ nfail' = Min(nfail + 1, MaxFail)
    /\ UNCHANGED << packet, packet_len, recv_addr, send_addr, hdrs, reset,
                    resetv6, dnr, dnrv6 >>

\* One iteration in which DivertRecv succeeds: it stores the packet p and its
\* metadata ra; the parse and the body follow.  DivertSend returns ok.  The
\* parameters are the sets the packet, the metadata and the result come from.
LoopIteration(Pkts, Addrs, Oks) ==
    /\ pc = "loop"
    /\ iter < MaxIter
    /\ iter' = iter + 1
    /\ \E p \in Pkts, ra \in Addrs, ok \in Oks :
        \E pkt \in { memcpy(packet, 0, p, 0, Len(p)) } :
        \E h \in { DivertHelperParse(pkt, Len(p)) } :
        \E m \in { Dispatch([ reset |-> reset, resetv6 |-> resetv6, dnr |-> dnr,
                              dnrv6 |-> dnrv6, send_addr |-> send_addr,
                              sent |-> << >> ], pkt, h, ra, ok) } :
            /\ packet' = pkt
            /\ packet_len' = Len(p)
            /\ recv_addr' = ra
            /\ recv_ok' = TRUE
            /\ hdrs' = h
            /\ reset' = m.reset
            /\ resetv6' = m.resetv6
            /\ dnr' = m.dnr
            /\ dnrv6' = m.dnrv6
            /\ send_addr' = m.send_addr
            /\ sent' = m.sent
            /\ prev_sent' = sent
            /\ nfail' = Min(nfail + Cardinality({ i \in 1..Len(m.sent) : ~m.sent[i].ok }),
                            MaxFail)
            /\ pc' = "loop"

Startup == UsageExit \/ DivertOpenFails \/ DivertOpenOk

\* Every kind of packet, captured in either direction; DivertRecv and
\* DivertSend may fail.
Next ==
    \/ Startup
    \/ DivertRecvFails
    \/ LoopIteration(MixedPackets, RecvAddrs, BOOLEAN)

Spec == Init /\ [][Next]_vars

\* TCP over IPv4 and IPv6: every case of the flags and of the arithmetic.
NextTcp ==
    \/ Startup
    \/ DivertRecvFails
    \/ LoopIteration(Tcp4Packets \cup Tcp6Packets, RecvAddrs, {TRUE})

SpecTcp == Init /\ [][NextTcp]_vars

\* UDP over IPv4: every header length.
NextUdp ==
    \/ Startup
    \/ DivertRecvFails
    \/ LoopIteration(Udp4Packets \cup {CutUdp4Packet}, RecvAddrs, {TRUE})

SpecUdp == Init /\ [][NextUdp]_vars

\* The packets that get no reply, among packets that get one.
NextDrop ==
    \/ Startup
    \/ DivertRecvFails
    \/ LoopIteration(NoReplyPackets \cup MixedPackets, {InboundAddr}, BOOLEAN)

SpecDrop == Init /\ [][NextDrop]_vars

-----------------------------------------------------------------------------
(* What the claims speak of, read off the wire: the bytes below are taken   *)
(* at the offsets RFC 791, RFC 8200, RFC 793 and RFC 792 give, from the     *)
(* packet as received and from the reply as handed to DivertSend.           *)

\* The n bytes at offset off.
Bytes(b, off, n) == SubSeq(b, off + 1, off + n)

\* The 16-bit number the wire carries at offset off.
Wire16(b, off) == b[off + 1] * 256 + b[off + 2]

\* Bit mask (a power of two) of the byte at offset off.
WireBit(b, off, mask) == (b[off + 1] \div mask) % 2 = 1

\* The packet DivertRecv delivered in the latest iteration.
Cur == Bytes(packet, 0, packet_len)

\* The latest iteration received a packet.
Received == pc = "loop" /\ iter > 0 /\ recv_ok

NetPresent == hdrs.ip_header # NULL \/ hdrs.ipv6_header # NULL

InV4 == hdrs.ip_header # NULL

InV6 == hdrs.ipv6_header # NULL

InTcp == Received /\ NetPresent /\ hdrs.tcp_header # NULL

InUdp == Received /\ NetPresent /\ hdrs.udp_header # NULL

\* Offset of the transport header in the received packet.
InT == IF InV4 THEN 4 * (Cur[1] % 16) ELSE 40

\* Offset of the TCP header in a reset.
OutT == IF InV4 THEN 20 ELSE 40

\* The reply handed to DivertSend, when there is exactly one.
Reply == sent[1].buf

-----------------------------------------------------------------------------
\* C1: every inbound TCP packet, over IPv4 or IPv6 and after any earlier
\* packets, is answered by a reset whose addresses and ports are the inbound
\* ones swapped, with RST and ACK set and SYN, FIN, URG and PSH clear.
C1_ResetSwapsAndFlags ==
    InTcp =>
        /\ Len(sent) = 1
        /\ IF InV4
           THEN /\ Bytes(Reply, 12, 4) = Bytes(Cur, 16, 4)
                /\ Bytes(Reply, 16, 4) = Bytes(Cur, 12, 4)
           ELSE /\ Bytes(Reply, 8, 16) = Bytes(Cur, 24, 16)
                /\ Bytes(Reply, 24, 16) = Bytes(Cur, 8, 16)
        /\ Bytes(Reply, OutT, 2) = Bytes(Cur, InT + 2, 2)
        /\ Bytes(Reply, OutT + 2, 2) = Bytes(Cur, InT, 2)
        /\ WireBit(Reply, OutT + 13, 4)          \* RST
        /\ WireBit(Reply, OutT + 13, 16)         \* ACK
        /\ ~WireBit(Reply, OutT + 13, 2)         \* SYN
        /\ ~WireBit(Reply, OutT + 13, 1)         \* FIN
        /\ ~WireBit(Reply, OutT + 13, 32)        \* URG
        /\ ~WireBit(Reply, OutT + 13, 8)         \* PSH

\* A FIN|PSH|ACK|URG segment over IPv6 is answered in the third iteration,
\* after two other resets.
C1_Witness ==
    /\ InTcp /\ InV6
    /\ Cur[InT + 14] = 57
    /\ iter = 3
    /\ Len(prev_sent) = 1
    /\ Len(sent) = 1
    /\ Bytes(Reply, 8, 16) = Bytes(Cur, 24, 16)
    /\ Reply[OutT + 14] % 64 = 20

\* The 32-bit number w (four wire bytes, most significant first) plus n, as
\* its two 16-bit halves.
Hi16(w) == w[1] * 256 + w[2]

Lo16(w) == w[3] * 256 + w[4]

IsSum32(r, w, n) ==
    /\ Lo16(r) = (Lo16(w) + n) % 65536
    /\ Hi16(r) = (Hi16(w) + ((Lo16(w) + n) \div 65536)) % 65536

\* Bytes after the TCP header of the received packet.
InTcpPayload == packet_len - InT - 4 * (Cur[InT + 13] \div 16)

\* C2: the reset's AckNum is the inbound SeqNum + 1 when the inbound SYN is
\* set, and the inbound SeqNum + payload length when it is clear, modulo
\* 2^32; 0xFFFFFFFF with SYN gives 0, and SYN with SeqNum 100 gives 101.
C2_ResetAckNum ==
    InTcp =>
        /\ Len(sent) = 1
        /\ IsSum32(Bytes(Reply, OutT + 8, 4), Bytes(Cur, InT + 4, 4),
                   IF WireBit(Cur, InT + 13, 2) THEN 1 ELSE InTcpPayload)
        /\ (WireBit(Cur, InT + 13, 2) /\ Bytes(Cur, InT + 4, 4) = << 255, 255, 255, 255 >>)
              => Bytes(Reply, OutT + 8, 4) = << 0, 0, 0, 0 >>
        /\ (WireBit(Cur, InT + 13, 2) /\ Bytes(Cur, InT + 4, 4) = << 0, 0, 0, 100 >>)
              => Bytes(Reply, OutT + 8, 4) = << 0, 0, 0, 101 >>

\* A segment without SYN, SeqNum 0xFFFFFFFE and two bytes of payload is
\* answered with AckNum 0.
C2_Witness ==
    /\ InTcp
    /\ ~WireBit(Cur, InT + 13, 2)
    /\ Bytes(Cur, InT + 4, 4) = << 255, 255, 255, 254 >>
    /\ InTcpPayload = 2
    /\ Len(sent) = 1
    /\ Bytes(Reply, OutT + 8, 4) = << 0, 0, 0, 0 >>

\* C3: the reset's SeqNum is the inbound AckNum when the inbound ACK is set
\* and 0 when it is clear, whatever the template held before.
C3_ResetSeqNum ==
    InTcp =>
        /\ Len(sent) = 1
        /\ Bytes(Reply, OutT + 4, 4) =
              IF WireBit(Cur, InT + 13, 16) THEN Bytes(Cur, InT + 8, 4)
              ELSE << 0, 0, 0, 0 >>

\* An IPv4 segment with ACK clear and a non-zero AckNum field is answered
\* with SeqNum 0 right after an IPv4 reset that carried a non-zero SeqNum.
C3_Witness ==
    /\ InTcp /\ InV4
    /\ ~WireBit(Cur, InT + 13, 16)
    /\ Bytes(Cur, InT + 8, 4) # << 0, 0, 0, 0 >>
    /\ Len(prev_sent) = 1
    /\ prev_sent[1].len = 40
    /\ Bytes(prev_sent[1].buf, 24, 4) # << 0, 0, 0, 0 >>
    /\ Len(sent) = 1
    /\ Bytes(Reply, 24, 4) = << 0, 0, 0, 0 >>

InUdp4 == InUdp /\ InV4

\* C4: every inbound UDP packet over IPv4, whatever its header length and
\* whatever came before, is answered by an ICMP message of type 3, code 3,
\* with the inbound addresses swapped, whose data area is the first
\* (IPv4 header length + 8) bytes of the inbound packet, and nothing is
\* transmitted after them.
C4_IcmpUnreachable ==
    InUdp4 =>
        /\ Len(sent) = 1
        /\ Reply[20 + 1] = 3
        /\ Reply[21 + 1] = 3
        /\ Bytes(Reply, 12, 4) = Bytes(Cur, 16, 4)
        /\ Bytes(Reply, 16, 4) = Bytes(Cur, 12, 4)
        /\ InT \in 20..60
        /\ sent[1].len = 20 + 8 + InT + 8
        /\ Len(Reply) = sent[1].len
        /\ Bytes(Reply, 20 + 8, InT + 8) = Bytes(Cur, 0, InT + 8)

\* A packet with an IPv4 header of 15 words is answered in the third
\* iteration, after two other replies.
C4_Witness ==
    /\ InUdp4
    /\ Cur[1] % 16 = 15
    /\ iter = 3
    /\ Len(prev_sent) = 1
    /\ Len(sent) = 1
    /\ sent[1].len = 96
    /\ Bytes(Reply, 28, 68) = Bytes(Cur, 0, 68)

\* C7 as stated: the IPv4 total length of the ICMP reply is the size of the
\* ICMP header (8) plus the bytes copied into the data area.
C7_AsStated ==
    InUdp4 => (Len(sent) = 1 /\ Wire16(Reply, 2) = 8 + (InT + 8))

\* C7, amended: the IPv4 total length of the ICMP reply is sizeof(ICMPPACKET),
\* the outer IPv4 header (20) and the ICMP header (8), plus the bytes copied
\* into the data area.
C7_TotalLength ==
    InUdp4 => (Len(sent) = 1 /\ Wire16(Reply, 2) = 20 + 8 + (InT + 8))

\* A packet with an IPv4 header of 6 words gets a reply of total length 60.
C7_Witness ==
    /\ InUdp4
    /\ Cur[1] % 16 = 6
    /\ Len(sent) = 1
    /\ Wire16(Reply, 2) = 60

\* C5: the metadata of every DivertSend call is the metadata received in the
\* same iteration with the direction alone changed: inverted for a TCP reset,
\* outbound for an ICMP or ICMPv6 reply.
C5_SendMetadata ==
    Received =>
        /\ (InTcp \/ InUdp) => Len(sent) = 1
        /\ \A i \in 1..Len(sent) :
              /\ sent[i].addr.IfIdx = recv_addr.IfIdx
              /\ sent[i].addr.SubIfIdx = recv_addr.SubIfIdx
              /\ sent[i].addr.Direction =
                    IF InTcp
                    THEN (IF recv_addr.Direction = DIVERT_DIRECTION_INBOUND
                          THEN DIVERT_DIRECTION_OUTBOUND
                          ELSE DIVERT_DIRECTION_INBOUND)
                    ELSE DIVERT_DIRECTION_OUTBOUND

\* A UDP packet captured inbound on interface 4 is answered outbound on
\* interface 4, right after a reply sent on interface 1.
C5_Witness ==
    /\ InUdp
    /\ recv_addr = InboundAddr
    /\ Len(prev_sent) = 1
    /\ prev_sent[1].addr.IfIdx = 1
    /\ Len(sent) = 1
    /\ sent[1].addr = [InboundAddr EXCEPT !.Direction = DIVERT_DIRECTION_OUTBOUND]

\* The parse reported at most one network and at most one transport header.
AtMostOneEach ==
    /\ ~(InV4 /\ InV6)
    /\ Cardinality({ x \in {"icmp_header", "icmpv6_header", "tcp_header", "udp_header"} :
                        hdrs[x] # NULL }) <= 1

\* C6: an iteration makes exactly one DivertSend call when the packet it
\* received has a network header and a TCP or UDP header, and none when the
\* transport is ICMP or ICMPv6, when there is no transport header, or when
\* the packet is neither IPv4 nor IPv6; it never makes more than one.
C6_OneReplyOrNone ==
    (pc = "loop" /\ AtMostOneEach) =>
        Len(sent) = IF Received /\ NetPresent
                       /\ (hdrs.tcp_header # NULL \/ hdrs.udp_header # NULL)
                    THEN 1 ELSE 0

\* An ICMPv6 packet is received and nothing is sent, right after an
\* iteration that sent a reply.
C6_Witness ==
    /\ Received
    /\ hdrs.icmpv6_header # NULL
    /\ InV6
    /\ Len(prev_sent) = 1
    /\ sent = << >>

\* C8: in every reply the length field of the network header agrees with the
\* number of bytes handed to DivertSend: the IPv4 total length is that
\* number, the IPv6 payload length is that number less the 40 bytes of the
\* IPv6 header.
C8_LengthFieldsAgree ==
    \A i \in 1..Len(sent) :
        IF sent[i].buf[1] \div 16 = 4
        THEN Wire16(sent[i].buf, 2) = sent[i].len
        ELSE Wire16(sent[i].buf, 4) = sent[i].len - 40

\* C9: a failed DivertRecv leaves the receive buffer unparsed and the
\* templates untouched and sends nothing; a failed DivertSend is not
\* repeated; the loop goes on after either, and the next TCP or UDP packet
\* received is answered.
C9_FailuresAreSkipped ==
    [][ pc = "loop" =>
            /\ pc' = "loop"
            /\ ~recv_ok' =>
                  /\ sent' = << >>
                  /\ UNCHANGED << packet, packet_len, recv_addr, send_addr, hdrs,
                                  reset, resetv6, dnr, dnrv6 >>
            /\ Len(sent') <= 1
            /\ (recv_ok' /\ NetPresent'
                  /\ ((hdrs.tcp_header # NULL)' \/ (hdrs.udp_header # NULL)'))
                  => Len(sent') = 1
      ]_vars

\* After two failures, the second a failed DivertSend, a packet is received
\* and its reply is sent.
C9_Witness ==
    /\ Received
    /\ nfail = 2
    /\ iter = 3
    /\ Len(prev_sent) = 1
    /\ ~prev_sent[1].ok
    /\ Len(sent) = 1
    /\ sent[1].ok

\* The DivertSend calls of a run that receives the current packet, with the
\* current metadata, as its first: the templates as "Initialize all packets"
\* leaves them and the receive buffer holding g past the packet.
FirstPacketSent(g) ==
    LET pkt == Cur \o Fill(g, BufBytes - packet_len)
    IN  Dispatch([ reset |-> InitReset(Fill(g, SizeofTCPPACKET)),
                   resetv6 |-> InitResetv6(Fill(g, SizeofTCPV6PACKET)),
                   dnr |-> InitDnr(Fill(g, SizeofDnr0)),
                   dnrv6 |-> InitDnrv6(Fill(g, SizeofDnrv6_0)),
                   send_addr |-> recv_addr,
                   sent |-> << >> ],
                 pkt, DivertHelperParse(pkt, packet_len), recv_addr, TRUE).sent

\* A call without the result DivertSend returned.
Handed(calls) ==
    [ i \in 1..Len(calls) |->
        [ buf |-> calls[i].buf, len |-> calls[i].len, addr |-> calls[i].addr ] ]

\* C10: what an iteration hands to DivertSend (bytes, length, metadata) is
\* what a run with no earlier packet hands to it for the same packet and
\* metadata: no earlier packet shows in it.
C10_ReplyFromCurrentPacketOnly ==
    Received => \E g \in Indeterminate : Handed(sent) = Handed(FirstPacketSent(g))

=============================================================================
